---- MODULE Spec2Model ----
(***************************************************************************)
(* Session lifecycle of the WhatsApp HTTP facade.                          *)
(*                                                                         *)
(* The repository holds two variants of the server that differ in how     *)
(* GET /whatsapp/qrcode obtains the pairing code:                         *)
(*                                                                         *)
(*   - src/unnamed/part_001 (specification Spec): generateQRCode() makes  *)
(*     one promise per request, with its own 'qr' listener and its own    *)
(*     30 s timer; initializeClient() is guarded by clientInitialized.    *)
(*   - src/src/index.js (specification SpecCached): a module-level 'qr'   *)
(*     handler caches qrCodeData / qrCodeExpiration and the route answers *)
(*     at once from the cache.                                            *)
(*                                                                         *)
(* Spec and SpecCached cover the pairing and disconnect routes.  SpecApi  *)
(* and SpecMsg are part_001 with one pairing request and its status       *)
(* route, respectively its message route; SpecBasic is                    *)
(* src/unnamed/part_000, the first server, which has the message route    *)
(* only.                                                                  *)
(*                                                                         *)
(* Time is in milliseconds and advances in steps of Tick.  A macrotask of *)
(* Node's event loop (a route handler up to its first await, an event     *)
(* emission with the promise reactions it triggers, a timer callback) is  *)
(* one action.                                                            *)
(***************************************************************************)
EXTENDS Integers, Sequences, FiniteSets, TLC

\* ------------------------------------------------------------------ bounds
MaxReq == 2        \* GET /whatsapp/qrcode requests per behaviour
MaxDisc == 1       \* POST /whatsapp/disconnect requests per behaviour
MaxOverlap == 2    \* POST /whatsapp/disconnect requests that may overlap
MaxTicks == 1      \* clock steps per behaviour of Spec
MaxTicksCached == 4   \* clock steps per behaviour of SpecCached
MaxSend == 1       \* POST /send-message requests per behaviour
MaxStatus == 2     \* GET /whatsapp/status requests per behaviour

\* ------------------------------------------------------- program constants
QR_CODE_EXPIRATION_TIME == 90000
QR_TIMEOUT == 30000

Tick == QR_TIMEOUT
MaxTime == MaxTicks * Tick
MaxTimeCached == MaxTicksCached * Tick

Codes == {"ABC", "XYZ"}        \* pairing codes the provider may issue
Reqs == 1..MaxReq
Discs == 1..MaxDisc
OverlapDiscs == 1..MaxOverlap
DiscSlots == Discs \cup OverlapDiscs
Sends == 1..MaxSend

\* The request body of POST /send-message.  A number is a sequence of pieces,
\* the piece "@c.us" being the WhatsApp suffix; <<>> and "" are the values
\* JavaScript takes as missing.
Suffix == "@c.us"
Numbers == {<<>>, <<"5511">>, <<"5511", Suffix>>, <<Suffix, "5511">>}
Messages == {"", "oi"}

\* The bearer token of a request: none, one that is not the configured
\* secret, or the secret (process.env.WHATSAPP_API_TOKEN).
NoToken == "none"
Secret == "secret"
Tokens == {NoToken, "wrong", Secret}

VARIABLES
    now,                \* Date.now()
    info,               \* client.info is truthy
    lateQrAt,           \* part_001: time of the last 'qr' event emitted after a
                        \* pairing request had timed out, while no ready,
                        \* auth_failure, disconnected or destroy followed (history)
    sessionDown,        \* part_001: the session ended (or was never started)
                        \* and client.initialize() was not called since (history)
    startCalls,         \* number of client.initialize() calls issued
    destroyCalls,       \* number of client.destroy() calls issued
    clientInitialized,  \* part_001: let clientInitialized
    req,                \* part_001: the GET /whatsapp/qrcode requests
    disc,               \* part_001: the POST /whatsapp/disconnect requests
    qrCodeData,         \* index.js: let qrCodeData
    qrCodeExpiration,   \* index.js: let qrCodeExpiration
    cInit,              \* index.js: the client.initialize() promises
    cReq,               \* index.js: the GET /whatsapp/qrcode requests
    served,             \* index.js: artifact served since the last provider
                        \* event (history)
    send,               \* the POST /send-message requests
    statusCalls,        \* number of GET /whatsapp/status requests answered
    statusResp,         \* the last GET /whatsapp/status response
    lastEvent,          \* SpecApi: the last provider event since the last
                        \* client.initialize() call (history)
    changedAt           \* SpecApi: the time client.info last changed, NoTime
                        \* while it never did (history)

provider == <<now, info, lateQrAt, sessionDown, startCalls, destroyCalls>>
promiseVars == <<clientInitialized, req, disc>>
cachedVars == <<qrCodeData, qrCodeExpiration, cInit, cReq, served>>
routeVars == <<send, statusCalls, statusResp>>
history == <<lastEvent, changedAt>>
apiVars == <<send, statusCalls, statusResp, lastEvent, changedAt>>
vars == <<now, info, lateQrAt, sessionDown, startCalls, destroyCalls,
          clientInitialized, req, disc,
          qrCodeData, qrCodeExpiration, cInit, cReq, served,
          send, statusCalls, statusResp, lastEvent, changedAt>>

\* ---------------------------------------------------------------- responses
Null == "null"          \* a JavaScript null
Absent == "absent"      \* a field the response does not carry
NoTime == 0 - 1

NoResp == [http |-> 0, status |-> Absent, qrcode |-> Absent,
           expiresAt |-> NoTime, lastUpdate |-> NoTime, error |-> Absent]

Resp(http, status, qrcode, expiresAt, lastUpdate, error) ==
    [http |-> http, status |-> status, qrcode |-> qrcode,
     expiresAt |-> expiresAt, lastUpdate |-> lastUpdate, error |-> error]

ErrConnected == "WhatsApp ja esta conectado"
ErrTimeout == "Timeout ao gerar QR Code"
ErrStart == "Erro ao inicializar o cliente"
ErrNotConnected == "WhatsApp nao esta conectado"
ErrDisconnect == "Erro ao desconectar WhatsApp"
ErrRequired == "Numero e mensagem sao obrigatorios"
ErrSend == "Erro ao enviar mensagem"
ErrNoToken == "Token nao fornecido"
ErrBadToken == "Token invalido"

\* served: the code and expiry the route last answered from the cache
NoArtifact == [code |-> Null, expiresAt |-> NoTime]

\* The session state the routes report: client.info ? 'connected' : 'disconnected'
SessionState == IF info THEN "connected" ELSE "disconnected"

\* timer: milliseconds left on the setTimeout of the request, or NoTimer
NoTimer == 0 - 1

IdleReq == [st |-> "idle", listener |-> FALSE, timer |-> NoTimer,
            init |-> "none", sent |-> 0, resp |-> NoResp]

\* call: the state of the promise of client.destroy()
IdleDisc == [st |-> "idle", call |-> "none", resp |-> NoResp]

IdleCReq == [st |-> "idle", resp |-> NoResp, second |-> FALSE]

\* token: the bearer token the request carried; body: whether it carried both
\* fields ("unread" when the route handler did not run); call: the state of
\* the promise of client.sendMessage(); to: the address it was called with,
\* <<>> while it was not called
IdleSend == [st |-> "idle", token |-> NoToken, body |-> "unread",
             call |-> "none", to |-> <<>>, resp |-> NoResp]

\* ======================================================================
\* Variant src/unnamed/part_001: one promise per request
\* ======================================================================

\* Requests are numbered in the order they arrive.
NextReq(r) == req[r].st = "idle" /\ \A q \in Reqs : q < r => req[q].st # "idle"
NextDisc(d) == disc[d].st = "idle" /\ \A e \in DiscSlots : e < d => disc[e].st # "idle"

Pending == {r \in Reqs : req[r].st = "waiting"}

\* app.get('/whatsapp/qrcode') after `await generateQRCode()`: the promise
\* settles once (a later resolve/reject of a settled promise does nothing),
\* and the route sends the one response.
Settle(q, resp) ==
    IF q.st = "waiting"
    THEN [q EXCEPT !.st = "done", !.sent = q.sent + 1, !.resp = resp]
    ELSE q

\* Unsubscribe without the removeListener call
UnsubscribeTimerOnly(q) == [q EXCEPT !.timer = NoTimer]

\* clearTimeout(timeout); client.removeListener('qr', qrHandler)
Unsubscribe(q) == [q EXCEPT !.timer = NoTimer, !.listener = FALSE]

\* initializeClient(): client.initialize() is called only while
\* clientInitialized is false
StartsClient == ~clientInitialized

\* generateQRCode(), the synchronous part: arm the timer, add the listener,
\* start the client or reject when connected
GenerateQRCode(q) ==
    LET armed == [q EXCEPT !.st = "waiting",
                           !.timer = QR_TIMEOUT, !.listener = TRUE]
    IN  IF StartsClient
        THEN [armed EXCEPT !.init = "pending"]
        ELSE IF info
             THEN Settle(Unsubscribe(armed),
                         Resp(500, "error", Absent, NoTime, NoTime, ErrConnected))
             ELSE armed

\* mutant: the route calls generateQRCode() without testing client.info
GetQrcodeUnchecked(r) ==
    /\ NextReq(r)
    /\ req' = [req EXCEPT ![r] = GenerateQRCode(@)]
    /\ startCalls' = IF StartsClient THEN startCalls + 1 ELSE startCalls
    /\ sessionDown' = IF StartsClient THEN FALSE ELSE sessionDown
    /\ UNCHANGED <<now, info, lateQrAt, destroyCalls,
                   clientInitialized, disc, cachedVars>>

\* GET /whatsapp/qrcode (token accepted), up to `await generateQRCode()`
GetQrcode(r) ==
    /\ NextReq(r)
    /\ IF info
       THEN /\ req' = [req EXCEPT ![r] =
                        [@ EXCEPT !.st = "done", !.sent = 1,
                                  !.resp = Resp(400, "error", Absent, NoTime,
                                                NoTime, ErrConnected)]]
            /\ UNCHANGED <<startCalls, sessionDown>>
       ELSE /\ req' = [req EXCEPT ![r] = GenerateQRCode(@)]
            /\ startCalls' = IF StartsClient THEN startCalls + 1 ELSE startCalls
            /\ sessionDown' = IF StartsClient THEN FALSE ELSE sessionDown
    /\ UNCHANGED <<now, info, lateQrAt, destroyCalls,
                   clientInitialized, disc, cachedVars>>

\* `await client.initialize()` of request r resolves
InitResolve(r) ==
    /\ req[r].init = "pending"
    /\ clientInitialized' = TRUE
    /\ req' = [req EXCEPT ![r].init = "resolved"]
    /\ UNCHANGED <<provider, disc, cachedVars>>

\* `await client.initialize()` of request r rejects: initializeClient throws,
\* the catch of generateQRCode unsubscribes and rejects
InitReject(r) ==
    /\ req[r].init = "pending"
    /\ req' = [req EXCEPT ![r] =
                 Settle(Unsubscribe([@ EXCEPT !.init = "rejected"]),
                        Resp(500, "error", Absent, NoTime, NoTime, ErrStart))]
    /\ sessionDown' = IF /\ ~clientInitialized
                         /\ \A q \in Reqs \ {r} : req[q].init # "pending"
                      THEN TRUE ELSE sessionDown
    /\ UNCHANGED <<now, info, lateQrAt, startCalls, destroyCalls,
                   clientInitialized, disc, cachedVars>>

\* qrHandler(qr) of one request
QrHandler(q, qr) ==
    Settle(Unsubscribe(q), Resp(200, "connecting", qr, NoTime, now, Absent))

TimedOut == {r \in Reqs : req[r].resp.error = ErrTimeout}

\* the provider emits 'qr': every registered qrHandler runs
QrEvent(qr) ==
    /\ startCalls > 0
    /\ req' = [r \in Reqs |-> IF req[r].listener THEN QrHandler(req[r], qr)
                              ELSE req[r]]
    /\ lateQrAt' = IF TimedOut # {} THEN now ELSE lateQrAt
    /\ UNCHANGED <<now, info, sessionDown, startCalls, destroyCalls,
                   clientInitialized, disc, cachedVars>>

\* mutant: the timer callback removes the listener but never rejects
TimeoutHandlerNoReject(q) == [q EXCEPT !.timer = NoTimer, !.listener = FALSE]

\* mutant: the timer callback rejects but leaves the 'qr' listener registered
TimeoutHandlerKeepsListener(q) ==
    Settle([q EXCEPT !.timer = NoTimer],
           Resp(500, "error", Absent, NoTime, NoTime, ErrTimeout))

\* the setTimeout callback of generateQRCode
TimeoutHandler(q) ==
    Settle([q EXCEPT !.timer = NoTimer, !.listener = FALSE],
           Resp(500, "error", Absent, NoTime, NoTime, ErrTimeout))

\* the 30 s of a request have elapsed and its timer has not been cleared
Timeout(r) ==
    /\ req[r].timer = 0
    /\ req' = [req EXCEPT ![r] = TimeoutHandler(@)]
    /\ UNCHANGED <<provider, clientInitialized, disc, cachedVars>>

\* client.on('ready'): logs; the provider has set client.info
\* the 'ready' handler, were it to answer the requests that wait
ReadyAnswersPending ==
    /\ startCalls > 0
    /\ info' = TRUE
    /\ lateQrAt' = NoTime
    /\ req' = [r \in Reqs |->
                 IF req[r].st = "waiting"
                 THEN Settle(Unsubscribe(req[r]),
                             Resp(400, "error", Absent, NoTime, NoTime,
                                  ErrConnected))
                 ELSE req[r]]
    /\ UNCHANGED <<now, sessionDown, startCalls, destroyCalls,
                   clientInitialized, disc, cachedVars>>

Ready ==
    /\ startCalls > 0
    /\ info' = TRUE
    /\ lateQrAt' = NoTime
    /\ UNCHANGED <<now, sessionDown, startCalls, destroyCalls,
                   promiseVars, cachedVars>>

\* client.on('auth_failure'): logs
AuthFailure ==
    /\ startCalls > 0
    /\ sessionDown' = TRUE
    /\ lateQrAt' = NoTime
    /\ UNCHANGED <<now, info, startCalls, destroyCalls,
                   promiseVars, cachedVars>>

\* client.on('disconnected'): logs; the provider has dropped client.info
Disconnected ==
    /\ startCalls > 0
    /\ info' = FALSE
    /\ sessionDown' = TRUE
    /\ lateQrAt' = NoTime
    /\ UNCHANGED <<now, startCalls, destroyCalls, promiseVars, cachedVars>>

\* Disconnect without the client.info test
DisconnectUnchecked(d) ==
    /\ NextDisc(d)
    /\ disc' = [disc EXCEPT ![d].st = "waiting", ![d].call = "pending"]
    /\ destroyCalls' = destroyCalls + 1
    /\ UNCHANGED <<now, info, lateQrAt, sessionDown, startCalls,
                   clientInitialized, req, cachedVars>>

\* POST /whatsapp/disconnect (token accepted), up to `await client.destroy()`
Disconnect(d) ==
    /\ NextDisc(d)
    /\ IF ~info
       THEN /\ disc' = [disc EXCEPT ![d] =
                         [st |-> "done", call |-> "none",
                          resp |-> Resp(400, "error", Absent, NoTime, NoTime,
                                        ErrNotConnected)]]
            /\ UNCHANGED destroyCalls
       ELSE /\ disc' = [disc EXCEPT ![d].st = "waiting", ![d].call = "pending"]
            /\ destroyCalls' = destroyCalls + 1
    /\ UNCHANGED <<now, info, lateQrAt, sessionDown, startCalls,
                   clientInitialized, req, cachedVars>>

\* DestroyResolve, were the teardown to clear the start flag
DestroyResolveResets(d) ==
    /\ disc[d].st = "waiting"
    /\ info' = FALSE
    /\ sessionDown' = TRUE
    /\ lateQrAt' = NoTime
    /\ clientInitialized' = FALSE
    /\ disc' = [disc EXCEPT ![d] =
                  [st |-> "done", call |-> "resolved",
                   resp |-> Resp(200, "success", Absent, NoTime, NoTime, Absent)]]
    /\ UNCHANGED <<now, startCalls, destroyCalls, req, cachedVars>>

\* `await client.destroy()` resolves: the session is torn down
DestroyResolve(d) ==
    /\ disc[d].st = "waiting"
    /\ info' = FALSE
    /\ sessionDown' = TRUE
    /\ lateQrAt' = NoTime
    /\ disc' = [disc EXCEPT ![d] =
                  [st |-> "done", call |-> "resolved",
                   resp |-> Resp(200, "success", Absent, NoTime, NoTime, Absent)]]
    /\ UNCHANGED <<now, startCalls, destroyCalls,
                   clientInitialized, req, cachedVars>>

\* DestroyReject, were the route to report success whatever the teardown did
DestroyRejectSilent(d) ==
    /\ disc[d].st = "waiting"
    /\ disc' = [disc EXCEPT ![d] =
                  [st |-> "done", call |-> "rejected",
                   resp |-> Resp(200, "success", Absent, NoTime, NoTime, Absent)]]
    /\ UNCHANGED <<provider, clientInitialized, req, cachedVars>>

\* `await client.destroy()` rejects
DestroyReject(d) ==
    /\ disc[d].st = "waiting"
    /\ disc' = [disc EXCEPT ![d] =
                  [st |-> "done", call |-> "rejected",
                   resp |-> Resp(500, "error", Absent, NoTime, NoTime,
                                 ErrDisconnect)]]
    /\ UNCHANGED <<provider, clientInitialized, req, cachedVars>>

\* A timer that is due fires before the clock moves on.
TimerDue == \E r \in Reqs : req[r].timer = 0

Elapse(t) == IF t = NoTimer THEN NoTimer ELSE IF t > Tick THEN t - Tick ELSE 0

Advance ==
    /\ now < MaxTime
    /\ ~TimerDue
    /\ now' = now + Tick
    /\ req' = [r \in Reqs |-> [req[r] EXCEPT !.timer = Elapse(@)]]
    /\ UNCHANGED <<info, lateQrAt, sessionDown, startCalls, destroyCalls,
                   clientInitialized, disc, cachedVars>>

\* the state after the module has loaded: nothing has been started
Init ==
    /\ now = 0
    /\ info = FALSE
    /\ lateQrAt = NoTime
    /\ sessionDown = TRUE
    /\ startCalls = 0
    /\ destroyCalls = 0
    /\ clientInitialized = FALSE
    /\ req = [r \in Reqs |-> IdleReq]
    /\ disc = [d \in DiscSlots |-> IdleDisc]
    /\ qrCodeData = Null
    /\ qrCodeExpiration = NoTime
    /\ cInit = [k \in 0..MaxReq |-> "none"]
    /\ cReq = [r \in Reqs |-> IdleCReq]
    /\ served = NoArtifact
    /\ send = [s \in Sends |-> IdleSend]
    /\ statusCalls = 0
    /\ statusResp = NoResp
    /\ lastEvent = "none"
    /\ changedAt = NoTime

\* The pairing and disconnect routes with the provider's events.
Next ==
    \/ \E r \in Reqs : GetQrcode(r) /\ UNCHANGED apiVars
    \/ \E r \in Reqs : InitResolve(r) /\ UNCHANGED apiVars
    \/ \E r \in Reqs : InitReject(r) /\ UNCHANGED apiVars
    \/ \E qr \in Codes : QrEvent(qr) /\ UNCHANGED apiVars
    \/ \E r \in Reqs : Timeout(r) /\ UNCHANGED apiVars
    \/ Ready /\ UNCHANGED apiVars
    \/ AuthFailure /\ UNCHANGED apiVars
    \/ Disconnected /\ UNCHANGED apiVars
    \/ \E d \in Discs : Disconnect(d) /\ UNCHANGED apiVars
    \/ \E d \in Discs : DestroyResolve(d) /\ UNCHANGED apiVars
    \/ \E d \in Discs : DestroyReject(d) /\ UNCHANGED apiVars
    \/ Advance /\ UNCHANGED apiVars

Spec == Init /\ [][Next]_vars

\* Spec with a clock that keeps running and timers that fire when due: Node
\* runs the callback of a setTimeout once its delay has elapsed.
SpecLive ==
    /\ Spec
    /\ WF_vars(Advance /\ UNCHANGED apiVars)
    /\ \A r \in Reqs : WF_vars(Timeout(r) /\ UNCHANGED apiVars)

\* ======================================================================
\* Variant src/src/index.js: the pairing code is cached
\* ======================================================================

NextCReq(r) == cReq[r].st = "idle" /\ \A q \in Reqs : q < r => cReq[q].st # "idle"

\* mutant: the cached code is never taken to be expired
CacheNeverExpires == FALSE

\* Date.now() > qrCodeExpiration
CacheExpired == now > qrCodeExpiration

\* mutant: the route always asks for a new code
NeedsNewCodeAlways == TRUE

\* !qrCodeData || !qrCodeExpiration || Date.now() > qrCodeExpiration
NeedsNewCode ==
    qrCodeData = Null \/ qrCodeExpiration = NoTime \/ CacheExpired

\* new Date(qrCodeExpiration).toISOString(): new Date(null) is the epoch
ExpiresAtField(exp) == IF exp = NoTime THEN 0 ELSE exp

\* the body the route sends when the client is not connected
CachedBody(data, exp) ==
    Resp(200, "disconnected", data, ExpiresAtField(exp), now, Absent)

\* GET /whatsapp/qrcode of index.js (no authenticateToken on this route)
CGetQrcode(r) ==
    /\ NextCReq(r)
    /\ IF info
       THEN /\ cReq' = [cReq EXCEPT ![r] =
                          [@ EXCEPT !.st = "done",
                                    !.resp = Resp(200, "connected", Absent,
                                                  NoTime, now, Absent)]]
            /\ UNCHANGED <<qrCodeData, qrCodeExpiration, cInit, startCalls,
                           served>>
       ELSE IF NeedsNewCode
            THEN /\ qrCodeData' = Null
                 /\ qrCodeExpiration' = NoTime
                 /\ startCalls' = startCalls + 1
                 /\ cInit' = [cInit EXCEPT ![r] = "pending"]
                 /\ cReq' = [cReq EXCEPT ![r] =
                               [@ EXCEPT !.st = "done",
                                         !.resp = CachedBody(Null, NoTime)]]
                 /\ served' = NoArtifact
            ELSE /\ cReq' = [cReq EXCEPT ![r] =
                               [@ EXCEPT !.st = "done",
                                         !.resp = CachedBody(qrCodeData,
                                                             qrCodeExpiration)]]
                 /\ served' = [code |-> qrCodeData,
                               expiresAt |-> qrCodeExpiration]
                 /\ UNCHANGED <<qrCodeData, qrCodeExpiration, cInit,
                                startCalls>>
    /\ UNCHANGED <<now, info, lateQrAt, sessionDown, destroyCalls, promiseVars>>

\* a client.initialize() promise resolves: nothing is chained on success
CInitResolve(k) ==
    /\ cInit[k] = "pending"
    /\ cInit' = [cInit EXCEPT ![k] = "resolved"]
    /\ UNCHANGED <<provider, promiseVars, qrCodeData, qrCodeExpiration,
                   cReq, served>>

\* a client.initialize() promise rejects.  k = 0 is the call at module load,
\* whose catch clears the cache; k >= 1 is the call of request k, whose catch
\* sends a 500 on a response that has already been sent.
CInitReject(k) ==
    /\ cInit[k] = "pending"
    /\ cInit' = [cInit EXCEPT ![k] = "rejected"]
    /\ IF k = 0
       THEN /\ qrCodeData' = Null
            /\ qrCodeExpiration' = NoTime
            /\ served' = NoArtifact
            /\ UNCHANGED cReq
       ELSE /\ cReq' = [cReq EXCEPT ![k].second = TRUE]
            /\ UNCHANGED <<qrCodeData, qrCodeExpiration, served>>
    /\ UNCHANGED <<provider, promiseVars>>

\* CQrEvent, were a new code to keep the expiry of the code it replaces
CQrEventKeepsExpiry(qr) ==
    /\ qrCodeData' = qr
    /\ qrCodeExpiration' = IF qrCodeExpiration = NoTime
                           THEN now + QR_CODE_EXPIRATION_TIME
                           ELSE qrCodeExpiration
    /\ served' = NoArtifact
    /\ UNCHANGED <<provider, promiseVars, cInit, cReq>>

\* client.on('qr') of index.js
CQrEvent(qr) ==
    /\ qrCodeData' = qr
    /\ qrCodeExpiration' = now + QR_CODE_EXPIRATION_TIME
    /\ served' = NoArtifact
    /\ UNCHANGED <<provider, promiseVars, cInit, cReq>>

\* the 'ready' handler, were it to clear the code and keep its expiry
CReadyKeepsExpiry ==
    /\ qrCodeData' = Null
    /\ info' = TRUE
    /\ served' = NoArtifact
    /\ UNCHANGED <<now, lateQrAt, sessionDown, startCalls, destroyCalls,
                   promiseVars, cInit, cReq, qrCodeExpiration>>

\* client.on('ready') of index.js
CReady ==
    /\ qrCodeData' = Null
    /\ qrCodeExpiration' = NoTime
    /\ info' = TRUE
    /\ served' = NoArtifact
    /\ UNCHANGED <<now, lateQrAt, sessionDown, startCalls, destroyCalls,
                   promiseVars, cInit, cReq>>

\* client.on('auth_failure') of index.js
CAuthFailure ==
    /\ qrCodeData' = Null
    /\ qrCodeExpiration' = NoTime
    /\ served' = NoArtifact
    /\ UNCHANGED <<provider, promiseVars, cInit, cReq>>

\* client.on('disconnected') of index.js
CDisconnected ==
    /\ qrCodeData' = Null
    /\ qrCodeExpiration' = NoTime
    /\ info' = FALSE
    /\ served' = NoArtifact
    /\ UNCHANGED <<now, lateQrAt, sessionDown, startCalls, destroyCalls,
                   promiseVars, cInit, cReq>>

CAdvance ==
    /\ now < MaxTimeCached
    /\ now' = now + Tick
    /\ UNCHANGED <<info, lateQrAt, sessionDown, startCalls, destroyCalls,
                   promiseVars, cachedVars>>

\* the state after the module has loaded: client.initialize() has been called once
InitCached ==
    /\ now = 0
    /\ info = FALSE
    /\ lateQrAt = NoTime
    /\ sessionDown = FALSE
    /\ startCalls = 1
    /\ destroyCalls = 0
    /\ clientInitialized = FALSE
    /\ req = [r \in Reqs |-> IdleReq]
    /\ disc = [d \in DiscSlots |-> IdleDisc]
    /\ qrCodeData = Null
    /\ qrCodeExpiration = NoTime
    /\ cInit = [k \in 0..MaxReq |-> IF k = 0 THEN "pending" ELSE "none"]
    /\ cReq = [r \in Reqs |-> IdleCReq]
    /\ served = NoArtifact
    /\ send = [s \in Sends |-> IdleSend]
    /\ statusCalls = 0
    /\ statusResp = NoResp
    /\ lastEvent = "none"
    /\ changedAt = NoTime

NextCached ==
    \/ \E r \in Reqs : CGetQrcode(r) /\ UNCHANGED apiVars
    \/ \E k \in 0..MaxReq : CInitResolve(k) /\ UNCHANGED apiVars
    \/ \E k \in 0..MaxReq : CInitReject(k) /\ UNCHANGED apiVars
    \/ \E qr \in Codes : CQrEvent(qr) /\ UNCHANGED apiVars
    \/ CReady /\ UNCHANGED apiVars
    \/ CAuthFailure /\ UNCHANGED apiVars
    \/ CDisconnected /\ UNCHANGED apiVars
    \/ CAdvance /\ UNCHANGED apiVars

SpecCached == InitCached /\ [][NextCached]_vars

\* ======================================================================
\* The message and status routes (src/unnamed/part_001, src/src/index.js)
\* ======================================================================

NextSend(s) == send[s].st = "idle" /\ \A t \in Sends : t < s => send[t].st # "idle"

\* number.includes('@c.us')
Includes(number, piece) == \E i \in 1..Len(number) : number[i] = piece

\* number.includes('@c.us') ? number : `${number}@c.us`
FormatNumber(number) ==
    IF Includes(number, Suffix) THEN number ELSE Append(number, Suffix)

\* !number || !message
Missing(number, message) == number = <<>> \/ message = ""

\* authenticateToken: 0 when next() is called, else the status it answers
AuthenticateToken(token) ==
    IF token = NoToken THEN 401 ELSE IF token # Secret THEN 403 ELSE 0

\* the response of authenticateToken to a request it ends
Denied(token) ==
    Resp(AuthenticateToken(token), Absent, Absent, NoTime, NoTime,
         IF token = NoToken THEN ErrNoToken ELSE ErrBadToken)

\* the request body as the handler finds it
Body(number, message) == IF Missing(number, message) THEN "missing" ELSE "complete"

\* SendHandler, were the body validated before the connection is tested
SendHandlerValidatesFirst(token, number, message, connected) ==
    IF Missing(number, message)
    THEN [st |-> "done", token |-> token, body |-> Body(number, message),
          call |-> "none", to |-> <<>>,
          resp |-> Resp(400, Absent, Absent, NoTime, NoTime, ErrRequired)]
    ELSE IF ~connected
    THEN [st |-> "done", token |-> token, body |-> Body(number, message),
          call |-> "none", to |-> <<>>,
          resp |-> Resp(503, Absent, Absent, NoTime, NoTime, ErrNotConnected)]
    ELSE [st |-> "waiting", token |-> token, body |-> Body(number, message),
          call |-> "pending", to |-> FormatNumber(number), resp |-> NoResp]

\* the route handler of /send-message up to `await client.sendMessage(...)`,
\* for a request found connected or not
SendHandler(token, number, message, connected) ==
    IF ~connected
    THEN [st |-> "done", token |-> token, body |-> Body(number, message),
          call |-> "none", to |-> <<>>,
          resp |-> Resp(503, Absent, Absent, NoTime, NoTime, ErrNotConnected)]
    ELSE IF Missing(number, message)
    THEN [st |-> "done", token |-> token, body |-> Body(number, message),
          call |-> "none", to |-> <<>>,
          resp |-> Resp(400, Absent, Absent, NoTime, NoTime, ErrRequired)]
    ELSE [st |-> "waiting", token |-> token, body |-> Body(number, message),
          call |-> "pending", to |-> FormatNumber(number), resp |-> NoResp]

\* app.post('/send-message', authenticateToken, ...) up to
\* `await client.sendMessage(...)`
SendMessage(s, token, number, message) ==
    /\ NextSend(s)
    /\ send' = [send EXCEPT ![s] =
          IF AuthenticateToken(token) # 0
          THEN [st |-> "done", token |-> token, body |-> "unread",
                call |-> "none", to |-> <<>>, resp |-> Denied(token)]
          ELSE SendHandler(token, number, message, info)]
    /\ UNCHANGED <<provider, promiseVars, cachedVars, statusCalls, statusResp, history>>

\* `await client.sendMessage(...)` resolves: res.json({ success: true, ... })
SendResolve(s) ==
    /\ send[s].st = "waiting"
    /\ send' = [send EXCEPT ![s].st = "done", ![s].call = "resolved",
                            ![s].resp = Resp(200, Absent, Absent, NoTime, NoTime, Absent)]
    /\ UNCHANGED <<provider, promiseVars, cachedVars, statusCalls, statusResp, history>>

\* SendReject, were the catch block to take the client for lost and allow a
\* new client.initialize()
SendRejectResets(s) ==
    /\ send[s].st = "waiting"
    /\ send' = [send EXCEPT ![s].st = "done", ![s].call = "rejected",
                            ![s].resp = Resp(500, Absent, Absent, NoTime, NoTime, ErrSend)]
    /\ clientInitialized' = FALSE
    /\ UNCHANGED <<provider, req, disc, cachedVars, statusCalls, statusResp, history>>

\* `await client.sendMessage(...)` rejects: the catch block answers 500
SendReject(s) ==
    /\ send[s].st = "waiting"
    /\ send' = [send EXCEPT ![s].st = "done", ![s].call = "rejected",
                            ![s].resp = Resp(500, Absent, Absent, NoTime, NoTime, ErrSend)]
    /\ UNCHANGED <<provider, promiseVars, cachedVars, statusCalls, statusResp, history>>

\* GetStatus, were the route to start the client as the pairing route does
GetStatusStarts ==
    /\ statusCalls < MaxStatus
    /\ statusCalls' = statusCalls + 1
    /\ statusResp' = Resp(200, SessionState, Absent, NoTime, now, Absent)
    /\ startCalls' = startCalls + 1
    /\ UNCHANGED <<now, info, lateQrAt, sessionDown, destroyCalls,
                   promiseVars, cachedVars, send, history>>

\* app.get('/whatsapp/status')
GetStatus ==
    /\ statusCalls < MaxStatus
    /\ statusCalls' = statusCalls + 1
    /\ statusResp' = Resp(200, SessionState, Absent, NoTime, now, Absent)
    /\ UNCHANGED <<provider, promiseVars, cachedVars, send, history>>

\* history: the provider event e happens now
Note(e) ==
    /\ lastEvent' = e
    /\ changedAt' = IF info' # info THEN now ELSE changedAt

\* part_001 with its pairing and status routes, for one pairing request; the
\* history variables follow the provider's events.
NextApi ==
    \/ /\ GetQrcode(1)
       /\ IF startCalls' # startCalls THEN Note("none") ELSE UNCHANGED history
       /\ UNCHANGED routeVars
    \/ InitResolve(1) /\ UNCHANGED apiVars
    \/ InitReject(1) /\ UNCHANGED apiVars
    \/ \E qr \in Codes : QrEvent(qr) /\ Note("qr") /\ UNCHANGED routeVars
    \/ Timeout(1) /\ UNCHANGED apiVars
    \/ Ready /\ Note("ready") /\ UNCHANGED routeVars
    \/ AuthFailure /\ Note("auth_failure") /\ UNCHANGED routeVars
    \/ Disconnected /\ Note("disconnected") /\ UNCHANGED routeVars
    \/ Advance /\ UNCHANGED apiVars
    \/ GetStatus

SpecApi == Init /\ [][NextApi]_vars

\* part_001 with its pairing and message routes, for one pairing request
NextMsg ==
    \/ GetQrcode(1) /\ UNCHANGED apiVars
    \/ InitResolve(1) /\ UNCHANGED apiVars
    \/ InitReject(1) /\ UNCHANGED apiVars
    \/ \E qr \in Codes : QrEvent(qr) /\ UNCHANGED apiVars
    \/ Timeout(1) /\ UNCHANGED apiVars
    \/ Ready /\ UNCHANGED apiVars
    \/ AuthFailure /\ UNCHANGED apiVars
    \/ Disconnected /\ UNCHANGED apiVars
    \/ Advance /\ UNCHANGED apiVars
    \/ \E s \in Sends, token \in Tokens, number \in Numbers, message \in Messages :
          SendMessage(s, token, number, message)
    \/ \E s \in Sends : SendResolve(s)
    \/ \E s \in Sends : SendReject(s)

SpecMsg == Init /\ [][NextMsg]_vars

\* part_001 with its pairing and disconnect routes, for one pairing request
NextTeardown ==
    \/ GetQrcode(1) /\ UNCHANGED apiVars
    \/ InitResolve(1) /\ UNCHANGED apiVars
    \/ InitReject(1) /\ UNCHANGED apiVars
    \/ \E qr \in Codes : QrEvent(qr) /\ UNCHANGED apiVars
    \/ Timeout(1) /\ UNCHANGED apiVars
    \/ Ready /\ UNCHANGED apiVars
    \/ AuthFailure /\ UNCHANGED apiVars
    \/ Disconnected /\ UNCHANGED apiVars
    \/ \E d \in Discs : Disconnect(d) /\ UNCHANGED apiVars
    \/ \E d \in Discs : DestroyResolve(d) /\ UNCHANGED apiVars
    \/ \E d \in Discs : DestroyReject(d) /\ UNCHANGED apiVars
    \/ Advance /\ UNCHANGED apiVars

SpecTeardown == Init /\ [][NextTeardown]_vars

\* part_001 with one pairing request and disconnect requests that may arrive
\* while an earlier one still awaits client.destroy()
NextOverlap ==
    \/ GetQrcode(1) /\ UNCHANGED apiVars
    \/ InitResolve(1) /\ UNCHANGED apiVars
    \/ InitReject(1) /\ UNCHANGED apiVars
    \/ \E qr \in Codes : QrEvent(qr) /\ UNCHANGED apiVars
    \/ Timeout(1) /\ UNCHANGED apiVars
    \/ Ready /\ UNCHANGED apiVars
    \/ AuthFailure /\ UNCHANGED apiVars
    \/ Disconnected /\ UNCHANGED apiVars
    \/ \E d \in OverlapDiscs : Disconnect(d) /\ UNCHANGED apiVars
    \/ \E d \in OverlapDiscs : DestroyResolve(d) /\ UNCHANGED apiVars
    \/ \E d \in OverlapDiscs : DestroyReject(d) /\ UNCHANGED apiVars
    \/ Advance /\ UNCHANGED apiVars

SpecOverlap == Init /\ [][NextOverlap]_vars

\* ======================================================================
\* Variant src/unnamed/part_000: the first server, without pairing routes
\* ======================================================================

\* app.post('/send-message') of part_000 up to `await client.sendMessage(...)`
SendMessageBasic(s, token, number, message) ==
    /\ NextSend(s)
    /\ send' = [send EXCEPT ![s] = SendHandler(token, number, message, TRUE)]
    /\ UNCHANGED <<provider, promiseVars, cachedVars, statusCalls, statusResp, history>>

\* app.get('/status') of part_000
GetStatusBasic ==
    /\ statusCalls < MaxStatus
    /\ statusCalls' = statusCalls + 1
    /\ statusResp' = [http |-> 200, status |-> "online", timestamp |-> now,
                      whatsapp |-> SessionState]
    /\ UNCHANGED <<provider, promiseVars, cachedVars, send, history>>

\* the state after the module has loaded: client.initialize() has been called once
InitBasic ==
    /\ now = 0
    /\ info = FALSE
    /\ lateQrAt = NoTime
    /\ sessionDown = FALSE
    /\ startCalls = 1
    /\ destroyCalls = 0
    /\ clientInitialized = FALSE
    /\ req = [r \in Reqs |-> IdleReq]
    /\ disc = [d \in DiscSlots |-> IdleDisc]
    /\ qrCodeData = Null
    /\ qrCodeExpiration = NoTime
    /\ cInit = [k \in 0..MaxReq |-> "none"]
    /\ cReq = [r \in Reqs |-> IdleCReq]
    /\ served = NoArtifact
    /\ send = [s \in Sends |-> IdleSend]
    /\ statusCalls = 0
    /\ statusResp = NoResp
    /\ lastEvent = "none"
    /\ changedAt = NoTime

NextBasic ==
    \/ Ready /\ Note("ready") /\ UNCHANGED routeVars
    \/ AuthFailure /\ Note("auth_failure") /\ UNCHANGED routeVars
    \/ Disconnected /\ Note("disconnected") /\ UNCHANGED routeVars
    \/ \E s \in Sends, token \in Tokens, number \in Numbers, message \in Messages :
          SendMessageBasic(s, token, number, message)
    \/ \E s \in Sends : SendResolve(s)
    \/ \E s \in Sends : SendReject(s)
    \/ GetStatusBasic

SpecBasic == InitBasic /\ [][NextBasic]_vars

\* ======================================================================
\* Claims
\* ======================================================================

\* a GET /whatsapp/qrcode request of part_001 arrives / is settled in this step
Arrives(r) == req[r].st = "idle" /\ req'[r].st # "idle"
Settles(r) == req[r].st = "waiting" /\ req'[r].st = "done"

\* a GET /whatsapp/qrcode request of index.js is answered in this step
Answered(r) == cReq[r].st = "idle" /\ cReq'[r].st = "done"

\* an unexpired pairing artifact is cached (index.js)
ValidArtifact ==
    qrCodeData # Null /\ qrCodeExpiration # NoTime /\ now <= qrCodeExpiration

\* C1 (as claimed): two GET /whatsapp/qrcode requests that overlap cause one
\* client.initialize() call between them, so no two pending requests have
\* both called client.initialize().
C1_SingleFlightStart ==
    \A r1, r2 \in Pending :
        r1 # r2 => ~(req[r1].init # "none" /\ req[r2].init # "none")

\* C2 (as claimed): at most one pairing request is in flight at any time.
C2_OneRequestInFlight == Cardinality(Pending) <= 1

C5_RestartPossible ==
    [][\A r \in Reqs :
        (Arrives(r) /\ ~info /\ sessionDown) => startCalls' = startCalls + 1]_vars

\* C6: in index.js, no response carries a code whose expiry had passed when
\* the response was sent, and a request that finds an expired artifact in the
\* cache answers with no code, clears the cache and calls client.initialize().
C6_ExpiryLaw ==
    /\ [](\A r \in Reqs :
            cReq[r].resp.qrcode \in Codes
                => cReq[r].resp.lastUpdate <= cReq[r].resp.expiresAt)
    /\ [][\A r \in Reqs :
            (/\ Answered(r)
             /\ ~info
             /\ qrCodeData # Null
             /\ qrCodeExpiration # NoTime
             /\ now > qrCodeExpiration)
                => /\ cReq'[r].resp.qrcode = Null
                   /\ qrCodeData' = Null
                   /\ qrCodeExpiration' = NoTime
                   /\ startCalls' = startCalls + 1
                   /\ cInit'[r] = "pending"]_vars

\* a request served a code, and the next request, made after that code had
\* expired, got no code and started the client
C6_Witness ==
    \E r \in Reqs :
        /\ r + 1 \in Reqs
        /\ cReq[r].resp.qrcode \in Codes
        /\ cReq[r + 1].st = "done"
        /\ cReq[r + 1].resp.qrcode = Null
        /\ cReq[r + 1].resp.lastUpdate > cReq[r].resp.expiresAt
        /\ cInit[r + 1] # "none"
        /\ ~info

\* C7 (as claimed): every successful answer of GET /whatsapp/qrcode in a
\* non-connected state has status "connecting", a code, and an expiresAt of
\* the issue time plus 90 s.
C7_SuccessBody ==
    \A r \in Reqs :
        (req[r].st = "done" /\ req[r].resp.http = 200) =>
            /\ req[r].resp.status = "connecting"
            /\ req[r].resp.qrcode \in Codes
            /\ req[r].resp.expiresAt
                 = req[r].resp.lastUpdate + QR_CODE_EXPIRATION_TIME

C9_SettledOnce ==
    /\ [](\A r \in Reqs :
            /\ req[r].sent <= 1
            /\ req[r].st = "done"
                 => (req[r].sent = 1 /\ ~req[r].listener /\ req[r].timer = NoTimer)
            /\ req[r].st # "done" => req[r].sent = 0)
    /\ [][\A r \in Reqs :
            req[r].st = "done" =>
                /\ req'[r].st = "done"
                /\ req'[r].resp = req[r].resp
                /\ req'[r].sent = req[r].sent]_vars

\* a request timed out, and a 'qr' event emitted after that settled a later
\* request while the timed-out one kept its timeout answer
C9_Witness ==
    \E r, q \in Reqs :
        /\ r < q
        /\ req[r].resp.error = ErrTimeout
        /\ req[q].resp.http = 200
        /\ lateQrAt # NoTime

\* C10 (as claimed): a request made while a 'qr' event emitted after a timeout
\* is still within its 90 s (and no later event cleared it) is answered with
\* that code at once, without calling client.initialize().
C10_LateCodeCached ==
    [][\A r \in Reqs :
        (/\ Arrives(r)
         /\ ~info
         /\ lateQrAt # NoTime
         /\ now <= lateQrAt + QR_CODE_EXPIRATION_TIME)
            => /\ req'[r].st = "done"
               /\ req'[r].resp.http = 200
               /\ startCalls' = startCalls]_vars

\* ---------------------------------------------------------------------
\* client.sendMessage() is called for request s in this step
SendInvoked(s) == send[s].call = "none" /\ send'[s].call = "pending"

\* C11: the provider's send is invoked only while the session is connected
\* (a POST /send-message arriving while client.info is not set is answered
\* 503 without calling client.sendMessage()).  part_001 and index.js test
\* client.info first; part_000 has no such test.
C11_SendOnlyWhenConnected ==
    [][\A s \in Sends : SendInvoked(s) => info]_vars

\* ---------------------------------------------------------------------
\* the client.sendMessage() call of request s rejects in this step
SendFails(s) == send[s].call = "pending" /\ send'[s].call = "rejected"

\* C12: when client.sendMessage() rejects, the request is answered 500
\* 'Erro ao enviar mensagem', and the session state (client.info), the
\* cached pairing code and the start flag (clientInitialized, with the count
\* of client.initialize() calls) are as they were.
C12_SendFailureFrame ==
    [][\A s \in Sends : SendFails(s) =>
          /\ send'[s].st = "done"
          /\ send'[s].resp = Resp(500, Absent, Absent, NoTime, NoTime, ErrSend)
          /\ info' = info
          /\ clientInitialized' = clientInitialized
          /\ startCalls' = startCalls
          /\ qrCodeData' = qrCodeData /\ qrCodeExpiration' = qrCodeExpiration]_vars

\* a send has failed while the session stays connected and started
C12_Witness ==
    \E s \in Sends :
        /\ send[s].call = "rejected" /\ send[s].resp.http = 500
        /\ info /\ clientInitialized

\* ---------------------------------------------------------------------
\* a POST /whatsapp/disconnect request arrives in this step
DiscArrives(d) == disc[d].st = "idle" /\ disc'[d].st # "idle"

\* C13: a POST /whatsapp/disconnect that arrives while the session is not
\* connected is answered at once with 400 'WhatsApp nao esta conectado', and
\* client.destroy() is not called.
C13_DisconnectNotConnected ==
    [][\A d \in Discs : (DiscArrives(d) /\ ~info) =>
          /\ disc'[d].st = "done"
          /\ disc'[d].resp = Resp(400, "error", Absent, NoTime, NoTime,
                                  ErrNotConnected)
          /\ destroyCalls' = destroyCalls
          /\ info' = info]_vars

\* a disconnect was refused with 400 and the provider was never told to stop
C13_Witness ==
    \E d \in Discs :
        /\ disc[d].st = "done" /\ disc[d].resp.http = 400
        /\ destroyCalls = 0 /\ ~info

\* ---------------------------------------------------------------------
\* the client.destroy() call of disconnect request d settles in this step
DestroySettles(d) == disc[d].st = "waiting" /\ disc'[d].st = "done"

\* C14: when the client.destroy() of a POST /whatsapp/disconnect settles,
\* resolved or rejected, the session is disconnected (client.info is unset,
\* so GET /whatsapp/status reports 'disconnected' and POST /send-message is
\* answered 503 until a later ready event).
C14_DisconnectedAfterSettle ==
    [][\A d \in Discs : DestroySettles(d) => ~info']_vars

\* ---------------------------------------------------------------------
\* the client.initialize() call made for request k of index.js rejects
CStartFails(k) == cInit[k] = "pending" /\ cInit'[k] = "rejected"

\* C15: when the client.initialize() a pairing request has called rejects,
\* the failure is handled: the request ends with one outcome, the 500 error,
\* no second response is written (which would throw inside the catch
\* callback, uncaught), and the session state stays as it was.
C15_StartFailureHandled ==
    [][\A k \in Reqs : CStartFails(k) =>
          /\ cReq'[k].resp.http = 500
          /\ ~cReq'[k].second
          /\ info' = info]_vars

\* ---------------------------------------------------------------------
\* a GET /whatsapp/status request is answered in this step
StatusAnswered == statusCalls' # statusCalls

\* C16: GET /whatsapp/status reports the current session state: 'connecting'
\* when the last provider event was a qr event (no ready, auth_failure or
\* disconnected event after it), and 'connected' when it was a ready event.
C16_StatusReportsState ==
    [][StatusAnswered =>
          /\ lastEvent = "qr" => statusResp'.status = "connecting"
          /\ lastEvent = "ready" => statusResp'.status = "connected"]_vars

\* C17: GET /whatsapp/status has no side effect: the session state, the
\* cached pairing code, the start flag, the 'qr' listeners and timers of the
\* pending requests are as they were, and no client.initialize(),
\* client.destroy() or client.sendMessage() is called.
C17_StatusNoSideEffect ==
    [][StatusAnswered =>
          /\ info' = info
          /\ qrCodeData' = qrCodeData /\ qrCodeExpiration' = qrCodeExpiration
          /\ clientInitialized' = clientInitialized
          /\ req' = req
          /\ startCalls' = startCalls /\ destroyCalls' = destroyCalls
          /\ send' = send]_vars

\* the status was asked while a pairing request was waiting with its listener
C17_Witness ==
    /\ statusCalls > 0
    /\ statusResp.lastUpdate = now
    /\ \E r \in Reqs : req[r].st = "waiting" /\ req[r].listener
    /\ startCalls = 1

\* C18: the lastUpdate of a GET /whatsapp/status response is the time of the
\* last change of the session state (so two requests with no change between
\* them carry the same lastUpdate).
C18_LastUpdateIsTransitionTime ==
    [][(StatusAnswered /\ changedAt # NoTime) =>
          statusResp'.lastUpdate = changedAt]_vars

\* C19: no pairing code is cached while the session is connected, whatever
\* the order of the provider's events and the requests.
C19_NoArtifactWhileConnected == ~(info /\ qrCodeData # Null)

\* C20: after an auth_failure event, and until client.initialize() is called
\* again, GET /whatsapp/status reports the error state (status 'error').
C20_ErrorObservable ==
    [][(StatusAnswered /\ lastEvent = "auth_failure") =>
          statusResp'.status = "error"]_vars

\* ---------------------------------------------------------------------
\* the cached pairing code or its expiry changes in this step
CacheChanges == qrCodeData' # qrCodeData \/ qrCodeExpiration' # qrCodeExpiration

\* C21: a cached pairing code expires 90 s after the qr event that produced
\* it: every step that changes the cache either clears it (code and expiry
\* together) or stores the code of a qr event with the expiry now + 90 s,
\* so the expiry of a cached code is the time of its event plus 90 s.
C21_ArtifactLaw ==
    /\ [](qrCodeData # Null =>
            (qrCodeExpiration - QR_CODE_EXPIRATION_TIME) \in 0..now)
    /\ [][CacheChanges =>
            \/ qrCodeData' = Null /\ qrCodeExpiration' = NoTime
            \/ /\ qrCodeData' \in Codes
               /\ qrCodeExpiration' = now + QR_CODE_EXPIRATION_TIME]_vars

\* a code issued after time 0 is cached, and time has passed since
C21_Witness ==
    /\ qrCodeData # Null
    /\ qrCodeExpiration > QR_CODE_EXPIRATION_TIME
    /\ now > qrCodeExpiration - QR_CODE_EXPIRATION_TIME

\* ---------------------------------------------------------------------
\* number.endsWith(piece)
EndsWith(number, piece) == Len(number) > 0 /\ number[Len(number)] = piece

\* C22: the address handed to client.sendMessage() is the recipient when it
\* ends with "@c.us" and the recipient followed by "@c.us" otherwise, so it
\* always ends with "@c.us".
C22_AddressEndsWithSuffix ==
    [][\A s \in Sends : SendInvoked(s) => EndsWith(send'[s].to, Suffix)]_vars

\* ---------------------------------------------------------------------
\* a POST /send-message request arrives in this step
SendArrives(s) == send[s].st = "idle" /\ send'[s].st # "idle"

\* C23: a request to a bearer-protected route without a token is answered
\* 401, and one with a token that is not the configured secret 403; the
\* route handler does not run, so client.sendMessage(), client.initialize()
\* and client.destroy() are not called and the session state is as it was
\* (stated for POST /send-message).
C23_BearerRequired ==
    [][\A s \in Sends : (SendArrives(s) /\ send'[s].token # Secret) =>
          /\ send'[s].st = "done"
          /\ send'[s].resp.http = IF send'[s].token = NoToken THEN 401 ELSE 403
          /\ send'[s].call = "none"
          /\ startCalls' = startCalls /\ destroyCalls' = destroyCalls
          /\ info' = info]_vars

\* ---------------------------------------------------------------------
\* C24: when the client.destroy() of a POST /whatsapp/disconnect rejects the
\* request is answered 500 {status: 'error'}, when it resolves 200
\* {status: 'success'}; a request made while connected gets one of the two,
\* and nothing is sent for it afterwards.
C24_DisconnectOutcome ==
    [][\A d \in Discs :
          /\ DestroySettles(d) =>
                \/ /\ disc'[d].call = "rejected"
                   /\ disc'[d].resp = Resp(500, "error", Absent, NoTime, NoTime,
                                           ErrDisconnect)
                \/ /\ disc'[d].call = "resolved"
                   /\ disc'[d].resp = Resp(200, "success", Absent, NoTime, NoTime,
                                           Absent)
          /\ disc[d].st = "done" => disc'[d] = disc[d]]_vars

\* a teardown failed and was reported with 500; the session is still connected
C24_Witness ==
    \E d \in Discs :
        /\ disc[d].call = "rejected" /\ disc[d].resp.http = 500
        /\ destroyCalls > 0 /\ info

\* ---------------------------------------------------------------------
\* request r waits and its 30 s end within the time the clock covers
WaitsInTime(r) ==
    /\ req[r].st = "waiting"
    /\ req[r].timer # NoTimer
    /\ req[r].timer <= MaxTime - now

\* C25: every GET /whatsapp/qrcode request that waits is eventually answered,
\* once, with a code, the already-connected error, the start error or the
\* timeout, whatever the provider emits or fails to emit, provided the clock
\* runs and due timers fire.
C25_EventuallyCompletes ==
    \A r \in Reqs :
        WaitsInTime(r) ~>
            (/\ req[r].st = "done" /\ req[r].sent = 1
             /\ req[r].resp.http \in {200, 400, 500})

\* a request has ended by its timer while the provider emitted nothing
C25_Witness ==
    \E r \in Reqs :
        /\ req[r].st = "done" /\ req[r].sent = 1
        /\ req[r].resp.error = ErrTimeout
        /\ ~info /\ lateQrAt = NoTime /\ ~sessionDown

\* ---------------------------------------------------------------------
\* request r is answered with a pairing code in this step
GetsCode(r) == Settles(r) /\ req'[r].resp.http = 200

\* C26: one qr event answers every pairing request that is waiting when it
\* arrives, each with the code of that event, and the session state is
\* 'connecting' afterwards.
C26_QrEventCompletesAll ==
    [][\A r \in Reqs : GetsCode(r) =>
          /\ \A q \in Reqs : req[q].st = "waiting" =>
                /\ req'[q].st = "done"
                /\ req'[q].resp.qrcode = req'[r].resp.qrcode
          /\ SessionState' = "connecting"]_vars

\* ---------------------------------------------------------------------
\* the requests whose qrHandler is registered on the client
Listening == {r \in Reqs : req[r].listener}

\* C27: the per-request 'qr' listeners registered on the client are those of
\* the requests still pending, as many as there are, and no request that is
\* not pending has an armed timer.
C27_ListenersMatchPending ==
    /\ Listening = Pending
    /\ Cardinality(Listening) = Cardinality(Pending)
    /\ \A r \in Reqs : req[r].timer # NoTimer => r \in Pending

\* a request was answered with a code and a later one waits with its listener
C27_Witness ==
    \E r, q \in Reqs :
        /\ req[r].st = "done" /\ req[r].resp.http = 200 /\ ~req[r].listener
        /\ req[q].st = "waiting" /\ req[q].listener /\ req[q].timer # NoTimer

\* ---------------------------------------------------------------------
\* C28: every GET /whatsapp/qrcode request gets one response: no path,
\* the failure of the client.initialize() the request has called included,
\* writes a second response for it.
C28_OneResponse == \A r \in Reqs : ~cReq[r].second

\* C29: for a POST /send-message with the right token, client.sendMessage()
\* is called only when the session is connected and number and message are
\* both present; connected with a field missing it answers 400; not
\* connected it answers 503, whatever the body.
C29_SendGuards ==
    [][\A s \in Sends : (SendArrives(s) /\ send'[s].token = Secret) =>
          /\ ~info =>
                /\ send'[s].st = "done" /\ send'[s].resp.http = 503
                /\ send'[s].call = "none"
          /\ (info /\ send'[s].body = "missing") =>
                /\ send'[s].st = "done" /\ send'[s].resp.http = 400
                /\ send'[s].call = "none"
          /\ SendInvoked(s) => (info /\ send'[s].body = "complete")]_vars

\* a request with both fields was refused with 503 while not connected
C29_Witness ==
    \E s \in Sends :
        /\ send[s].resp.http = 503 /\ send[s].body = "complete"
        /\ send[s].token = Secret /\ send[s].call = "none"

\* the session events that carry no pairing code
StateEvents == {"ready", "auth_failure", "disconnected"}

\* C30 (as amended): a waiting pairing request is settled only by a
\* pairing-code event (with its code), by the failure of its own
\* client.initialize() or by its own 30 s timer; a ready, auth_failure or
\* disconnected event changes no request.
C30_SettledOnlyByThree ==
    /\ [][(lastEvent' \in StateEvents /\ lastEvent' # lastEvent)
             => req' = req]_vars
    /\ [][\A r \in Reqs : Settles(r) =>
             \/ /\ req'[r].resp.http = 200
                /\ req'[r].resp.qrcode \in Codes
                /\ req[r].listener
             \/ /\ req'[r].resp.error = ErrStart
                /\ req[r].init = "pending" /\ req'[r].init = "rejected"
             \/ /\ req'[r].resp.error = ErrTimeout
                /\ req[r].timer = 0]_vars

\* C30 (as stated, its consequence): a request that is settled while the
\* session is connected ends by its timeout.
C30_ConnectedEndsByTimeout ==
    [][\A r \in Reqs : (Settles(r) /\ info) =>
          req'[r].resp.error = ErrTimeout]_vars

\* the session became connected while a request waited, and the request
\* then ended by its timer
C30_Witness ==
    /\ lastEvent = "ready" /\ info
    /\ changedAt # NoTime /\ changedAt < now
    /\ \E r \in TimedOut : req[r].st = "done" /\ ~req[r].listener

\* ---------------------------------------------------------------------
\* C31: clientInitialized is monotonic: it becomes true only in the step in
\* which a pending client.initialize() resolves, no step (disconnect,
\* 'disconnected', 'auth_failure', timeout) sets it back to false, and
\* while it is true no request calls client.initialize().
C31_StartFlagMonotonic ==
    [][/\ clientInitialized => clientInitialized'
       /\ (~clientInitialized /\ clientInitialized') =>
             \E r \in Reqs : /\ req[r].init = "pending"
                             /\ req'[r].init = "resolved"
       /\ clientInitialized =>
             /\ startCalls' = startCalls
             /\ \A r \in Reqs : Arrives(r) => req'[r].init = "none"]_vars

\* the flag is still set after a teardown has succeeded, and a request that
\* arrived afterwards has not started the client
C31_Witness ==
    /\ clientInitialized /\ sessionDown
    /\ \E d \in Discs : disc[d].call = "resolved"
    /\ \E r \in Reqs : req[r].st = "waiting" /\ req[r].init = "none"

\* ---------------------------------------------------------------------
\* the disconnect requests whose client.destroy() has not settled yet
Destroying == {d \in DiscSlots : disc[d].call = "pending"}

\* C32: disconnect requests that overlap while the session is connected
\* call client.destroy() at most once between them: no two of them await
\* client.destroy() at the same time.
C32_OneTeardownInFlight == Cardinality(Destroying) <= 1

\* ---------------------------------------------------------------------
\* C33: in the cached variant qrCodeData and qrCodeExpiration are always
\* both null or both set: whatever writes one writes the other in the same
\* step.
C33_CacheBothOrNeither == (qrCodeData = Null) <=> (qrCodeExpiration = NoTime)

\* the cache is empty again after a code that it held was served
C33_Witness ==
    /\ qrCodeData = Null /\ qrCodeExpiration = NoTime
    /\ \E r \in Reqs : cReq[r].st = "done" /\ cReq[r].resp.qrcode \in Codes

====
